---------------------------- MODULE Spec2Model ----------------------------
(***************************************************************************)
(* Service B (service-b-orchestration/cmd/main.go): the orchestration      *)
(* handler that resolves a postal code (CEP) to a locality through ViaCEP  *)
(* and then to a temperature through WeatherAPI.                           *)
(*                                                                         *)
(* Strings the handler inspects character by character (the CEP, the       *)
(* locality, the query string) are sequences of one-character strings.     *)
(* Message texts are sequences of words; the newline http.Error appends is *)
(* the final element "\n".  Temperatures are fixed-point hundredths of a   *)
(* degree (25.0 is 2500), so that c * 1.8 + 32 and c + 273.15 are exact.   *)
(***************************************************************************)
EXTENDS Integers, Sequences, FiniteSets, TLC

(***************************************************************************)
(* Bounds of the model.                                                    *)
(***************************************************************************)
\* number of inbound requests served (each runs app.handler once)
NumReqs == 1
\* longest locality name the geocode provider returns
MaxCityLen == 1

\* number of requests served side by side, where the claim is about several
NumConc == 2

Reqs == 1..NumReqs
ConcReqs == 1..NumConc
\* every request the state has room for
AllReqs == Reqs \cup ConcReqs

(***************************************************************************)
(* Program constants.                                                      *)
(***************************************************************************)
\* `^[0-9]{8}$`
ZipLen == 8
StatusOK == 200
StatusNotFound == 404
StatusUnprocessableEntity == 422
StatusInternalServerError == 500

Digits == {"0", "1", "2", "3", "4", "5", "6", "7", "8", "9"}

(***************************************************************************)
(* Inputs.                                                                 *)
(***************************************************************************)
\* postal codes as they arrive in the URL path, without the leading "/"
Ceps ==
  { <<"0", "1", "0", "0", "1", "0", "0", "0">>,        \* valid
    <<"1", "2", "3", "4", "5">>,                         \* too short
    <<>>,                                                \* path "/"
    <<"0", "1", "0", "0", "1", "0", "0", "a">>,        \* a letter
    <<"0", "1", "0", "0", "1", "0", "0", "0", "0">>,   \* nine digits
    <<"-", "1", "0", "0", "1", "0", "0", "0">>,        \* a sign
    <<"0", "1", "0", "0", "1", "0", "0", "\n">>,       \* trailing newline
    <<"0", "1", "0", "0", "1", "0", "0", "0", "\n">> } \* 8 digits + newline

\* r.URL.Path of the inbound requests
Paths == { <<"/">> \o c : c \in Ceps }

\* characters of a locality name: a letter, a space, a reserved character
CityChars == {"a", " ", "&"}

RECURSIVE SeqsUpTo(_, _)
SeqsUpTo(S, n) ==
  IF n = 0 THEN { <<>> }
  ELSE LET shorter == SeqsUpTo(S, n - 1)
       IN  shorter \cup { Append(s, c) : s \in shorter, c \in S }

\* locality names, the empty one included
Cities == SeqsUpTo(CityChars, MaxCityLen)

\* Celsius readings in hundredths: -40.00, 0.00, 25.00, 28.55
Temps == {-4000, 0, 2500, 2855}

\* the configured WeatherAPI key (config.LoadConfig refuses an empty one)
WeatherAPIKey == <<"k">>

(***************************************************************************)
(* JSON values of the provider bodies, as encoding/json sees them.         *)
(***************************************************************************)
JAbsent    == [t |-> "absent", s |-> <<>>, b |-> FALSE, n |-> 0]
JString(s) == [t |-> "string", s |-> s,    b |-> FALSE, n |-> 0]
JBool(b)   == [t |-> "bool",   s |-> <<>>, b |-> b,     n |-> 0]
JNumber(n) == [t |-> "number", s |-> <<>>, b |-> FALSE, n |-> n]

\* bodies the geocode provider can send: not JSON at all, or an object whose
\* "localidade" and "erro" members are absent, well typed or of another type
ViaCEPBodies ==
  { [json |-> FALSE, localidade |-> JAbsent, erro |-> JAbsent] }
  \cup
  { [json |-> TRUE, localidade |-> l, erro |-> e] :
      l \in {JAbsent, JNumber(7)} \cup { JString(c) : c \in Cities },
      e \in {JAbsent, JBool(TRUE), JBool(FALSE), JString(<<"t">>)} }

\* bodies the weather provider can send: not JSON, an object without
\* "current" (such as {"error": {...}}), or one whose current.temp_c is
\* absent, a number, or of another type
WeatherBodies ==
  { [json |-> FALSE, current |-> FALSE, temp_c |-> JAbsent],
    [json |-> TRUE,  current |-> FALSE, temp_c |-> JAbsent] }
  \cup
  { [json |-> TRUE, current |-> TRUE, temp_c |-> v] :
      v \in {JAbsent, JString(<<"h">>)} \cup { JNumber(c) : c \in Temps } }

NoViaCEPBody  == [json |-> FALSE, localidade |-> JAbsent, erro |-> JAbsent]
NoWeatherBody == [json |-> FALSE, current |-> FALSE, temp_c |-> JAbsent]

\* what http.DefaultClient.Do returns: an error, or a response with a body
ViaCEPResults ==
  { [err |-> TRUE, body |-> NoViaCEPBody] }
  \cup { [err |-> FALSE, body |-> b] : b \in ViaCEPBodies }

WeatherResults ==
  { [err |-> TRUE, body |-> NoWeatherBody] }
  \cup { [err |-> FALSE, body |-> b] : b \in WeatherBodies }

VARIABLES
  pc,          \* where each request's handler stands
  path,        \* r.URL.Path of the inbound request
  cep,         \* handler local: the extracted postal code
  ctx,         \* handler local: the span carried by ctx (0: the inbound context)
  handles,     \* handler locals span, viaCepSpan, weatherSpan (0: not created)
  resp,        \* handler locals resp, err: what the latest Do returned
  viaCepData,  \* handler local: the decoded ViaCEPResponse
  weatherData, \* handler local: the decoded WeatherAPIResponse
  spans,       \* the spans the tracer created for the request, in order
  calls,       \* the outbound requests the handler issued, in order
  replies,     \* what the providers answered to those requests, in order
  out,         \* what the handler wrote to the http.ResponseWriter
  logs,        \* the log lines of the request
  cancelled,   \* whether the inbound request's context has been cancelled
  shutdown,    \* whether main has received the interrupt and called Shutdown
  aPc,         \* Service A: where the handler of the request stands
  aIn,         \* Service A: the inbound request (method and body)
  aSpans,      \* Service A: the spans of the request
  aCalls,      \* Service A: the paths requested from Service B
  aOut         \* Service A: what the handler wrote to its ResponseWriter

\* the state of the environment and of Service A
envVars == <<cancelled, shutdown>>
aVars == <<aPc, aIn, aSpans, aCalls, aOut>>

vars == <<pc, path, cep, ctx, handles, resp, viaCepData, weatherData,
          spans, calls, replies, out, logs, envVars, aVars>>

(***************************************************************************)
(* Pure helpers.                                                           *)
(***************************************************************************)
\* n characters of the class [0-9], then the end of the text
RECURSIVE MatchDigitsThenEnd(_, _)
MatchDigitsThenEnd(s, n) ==
  IF n = 0 THEN s = <<>>
  ELSE /\ s # <<>>
       /\ Head(s) \in Digits
       /\ MatchDigitsThenEnd(Tail(s), n - 1)

\* the same without the closing anchor: `^[0-9]{8}`
RECURSIVE MatchDigitsPrefix(_, _)
MatchDigitsPrefix(s, n) ==
  IF n = 0 THEN TRUE
  ELSE /\ s # <<>>
       /\ Head(s) \in Digits
       /\ MatchDigitsPrefix(Tail(s), n - 1)

IsValidZipcodeUnanchored(c) == MatchDigitsPrefix(c, ZipLen)

\* regexp.MustCompile(`^[0-9]{8}$`).MatchString(cep)
IsValidZipcode(c) == MatchDigitsThenEnd(c, ZipLen)

\* the characters url.QueryEscape leaves alone
Unreserved == {"a", "k", "q", "-", "_", ".", "~"} \cup Digits

\* the two hexadecimal digits of a character's byte
HexOf(c) ==
  CASE c = "&" -> <<"2", "6">>
    [] c = "+" -> <<"2", "B">>
    [] c = "%" -> <<"2", "5">>
    [] c = "=" -> <<"3", "D">>
    [] OTHER   -> <<"3", "F">>

RECURSIVE QueryEscape(_)
QueryEscapeIdentity(s) == s

\* url.QueryEscape: a space becomes "+", a reserved character %XX
QueryEscape(s) ==
  IF s = <<>> THEN <<>>
  ELSE LET c == Head(s)
           e == IF c \in Unreserved THEN <<c>>
                ELSE IF c = " " THEN <<"+">>
                ELSE <<"%">> \o HexOf(c)
       IN  e \o QueryEscape(Tail(s))

\* fmt.Sprintf(".../v1/current.json?key=%s&q=%s", weatherAPIKey, escapedCity):
\* the query string of the weather request
WeatherQuery(key, escapedCity) ==
  <<"k", "e", "y", "=">> \o key \o <<"&", "q", "=">> \o escapedCity

ViaCEPZero  == [Localidade |-> <<>>, Erro |-> FALSE]
WeatherZero == [TempC |-> 0]

UnmarshalViaCEPIgnoringErr(b) ==
  [ err  |-> FALSE,
    data |-> [Localidade |-> IF b.json /\ b.localidade.t = "string"
                             THEN b.localidade.s ELSE <<>>,
              Erro       |-> IF b.json /\ b.erro.t = "bool"
                             THEN b.erro.b ELSE FALSE] ]

\* json.Unmarshal(body, &viaCepData): a member that is absent leaves the
\* field at its zero value; a member of another type is an error
UnmarshalViaCEP(b) ==
  [ err  |-> \/ ~b.json
             \/ b.localidade.t \notin {"absent", "string"}
             \/ b.erro.t \notin {"absent", "bool"},
    data |-> [Localidade |-> IF b.json /\ b.localidade.t = "string"
                             THEN b.localidade.s ELSE <<>>,
              Erro       |-> IF b.json /\ b.erro.t = "bool"
                             THEN b.erro.b ELSE FALSE] ]

\* json.Unmarshal(body, &weatherData)
UnmarshalWeather(b) ==
  [ err  |-> \/ ~b.json
             \/ (b.current /\ b.temp_c.t \notin {"absent", "number"}),
    data |-> [TempC |-> IF b.json /\ b.current /\ b.temp_c.t = "number"
                        THEN b.temp_c.n ELSE 0] ]

\* viaCepData.Erro || viaCepData.Localidade == ""
ZipcodeNotFoundOnlyEmpty(d) == d.Localidade = <<>>
ZipcodeNotFound(d) == d.Erro \/ d.Localidade = <<>>

\* tempC*1.8 + 32, in hundredths
FahrenheitWrongPrecedence(c) == ((c + 3200) * 18) \div 10
FahrenheitOf(c) == (c * 18) \div 10 + 3200

\* tempC + 273, in hundredths
KelvinPrecise(c) == c + 27315
KelvinOf(c) == c + 27300

\* as if viaCepData were one package-level variable: the locality is the one
\* decoded last, here that of the highest-numbered request holding one
TempResponseSharedData(city, c) ==
  LET holders == { r \in AllReqs : viaCepData[r].Localidade # <<>> }
      last    == CHOOSE r \in holders : \A q \in holders : q <= r
  IN  [city |-> viaCepData[last].Localidade, temp_C |-> c,
       temp_F |-> FahrenheitOf(c), temp_K |-> KelvinOf(c)]

\* as if the city were built in one package-level buffer that is never
\* reset: the names answered so far precede it
TempResponseSharedBuffer(city, c) ==
  LET answered == { r \in AllReqs : pc[r] = "done" /\ out[r] # <<>>
                                       /\ out[r][1].status = StatusOK }
  IN  [city |-> IF answered = {} THEN city ELSE city \o city, temp_C |-> c,
       temp_F |-> FahrenheitOf(c), temp_K |-> KelvinOf(c)]

\* TempResponse{City, TempC, TempF, TempK}
TempResponse(city, c) ==
  [city |-> city, temp_C |-> c, temp_F |-> FahrenheitOf(c), temp_K |-> KelvinOf(c)]

\* the messages of the error responses
MsgInvalidZipcode == <<"invalid", "zipcode">>
MsgNotFound == <<"can", "not", "find", "zipcode">>
MsgViaCEPFetch == <<"error", "fetching", "from", "ViaCEP">>
MsgViaCEPUnmarshal == <<"error", "unmarshalling", "ViaCEP", "response">>
MsgWeatherFetchCopied == <<"error", "fetching", "from", "ViaCEP">>
MsgWeatherFetch == <<"error", "fetching", "from", "WeatherAPI">>
MsgWeatherUnmarshal == <<"error", "unmarshalling", "WeatherAPI", "response">>

\* http.Error(w, msg, code): a plain-text line, the message and a newline
HttpError(o, msg, code) ==
  Append(o, [status |-> code, ctype |-> "text/plain; charset=utf-8",
             text |-> msg \o <<"\n">>, json |-> <<>>])

WriteJSONTwice(o, response) ==
  LET one == [status |-> StatusOK, ctype |-> "application/json",
              text |-> <<>>, json |-> <<response>>]
  IN  Append(Append(o, one), one)

\* w.Header().Set("Content-Type", ...); w.WriteHeader(200); Encode(response)
WriteJSON(o, response) ==
  Append(o, [status |-> StatusOK, ctype |-> "application/json",
             text |-> <<>>, json |-> <<response>>])

\* tracer.Start(ctx, name): a new span whose parent is the span ctx carries
StartSpan(ss, parent, name) ==
  Append(ss, [name |-> name, parent |-> parent, ended |-> 0])

\* span.End() on the span a handle names
EndSpan(ss, h) == [ss EXCEPT ![h].ended = @ + 1]

NoDeferredEnd(ss, h) == ss

\* defer span.End(): runs on every return of the handler
DeferredEnd(ss, h) == EndSpan(ss, h.span)

IgnoresContext(c, res) == TRUE

\* http.NewRequestWithContext(ctx, ...) and Do: once ctx is cancelled the
\* call ends with an error, whether it was in flight or not yet sent
ContextAllows(c, res) == c => res.err

\* Service A has not received the request
NoAInput == [method |-> "", json |-> FALSE, cep |-> JAbsent]

DoTwice(cs, req) == Append(Append(cs, req), req)

\* http.DefaultClient.Do(req): one request goes out
Do(cs, req) == Append(cs, req)

(***************************************************************************)
(* The state after construction: no request has arrived.                   *)
(***************************************************************************)
Init ==
  /\ pc = [r \in AllReqs |-> "idle"]
  /\ path = [r \in AllReqs |-> <<>>]
  /\ cep = [r \in AllReqs |-> <<>>]
  /\ ctx = [r \in AllReqs |-> 0]
  /\ handles = [r \in AllReqs |-> [span |-> 0, viaCepSpan |-> 0, weatherSpan |-> 0]]
  /\ resp = [r \in AllReqs |-> [err |-> FALSE, body |-> NoViaCEPBody]]
  /\ viaCepData = [r \in AllReqs |-> ViaCEPZero]
  /\ weatherData = [r \in AllReqs |-> WeatherZero]
  /\ spans = [r \in AllReqs |-> <<>>]
  /\ calls = [r \in AllReqs |-> <<>>]
  /\ replies = [r \in AllReqs |-> <<>>]
  /\ out = [r \in AllReqs |-> <<>>]
  /\ logs = [r \in AllReqs |-> <<>>]
  /\ cancelled = [r \in AllReqs |-> FALSE]
  /\ shutdown = FALSE
  /\ aPc = [r \in AllReqs |-> "idle"]
  /\ aIn = [r \in AllReqs |-> NoAInput]
  /\ aSpans = [r \in AllReqs |-> <<>>]
  /\ aCalls = [r \in AllReqs |-> <<>>]
  /\ aOut = [r \in AllReqs |-> <<>>]

(***************************************************************************)
(* app.handler, one action per stretch of code between suspension points   *)
(* and decisions.  Every action that returns runs the deferred span.End(). *)
(***************************************************************************)
\* lines 93-100: the request arrives (the server accepts none once Shutdown
\* was called); the request-scoped span is started and the postal code is cut
\* out of the path
Begin(r, p) ==
  /\ pc[r] = "idle"
  /\ ~shutdown
  /\ pc' = [pc EXCEPT ![r] = "validate"]
  /\ path' = [path EXCEPT ![r] = p]
  /\ spans' = [spans EXCEPT ![r] = StartSpan(@, ctx[r], "orchestration-handler")]
  /\ ctx' = [ctx EXCEPT ![r] = Len(spans[r]) + 1]
  /\ handles' = [handles EXCEPT ![r].span = Len(spans[r]) + 1]
  /\ cep' = [cep EXCEPT ![r] = Tail(p)]
  /\ logs' = [logs EXCEPT ![r] = Append(@, "Received request for CEP")]
  /\ UNCHANGED <<resp, viaCepData, weatherData, calls, replies, out>>
  /\ UNCHANGED <<envVars, aVars>>

\* lines 103-107: the format check and its early return
Validate(r) ==
  /\ pc[r] = "validate"
  /\ IF ~IsValidZipcode(cep[r])
     THEN /\ logs' = [logs EXCEPT ![r] = Append(@, "Invalid zipcode format")]
          /\ out' = [out EXCEPT ![r] =
                       HttpError(@, MsgInvalidZipcode, StatusUnprocessableEntity)]
          /\ spans' = [spans EXCEPT ![r] = DeferredEnd(@, handles[r])]
          /\ pc' = [pc EXCEPT ![r] = "done"]
     ELSE /\ pc' = [pc EXCEPT ![r] = "call_viacep"]
          /\ UNCHANGED <<logs, out, spans>>
  /\ UNCHANGED <<path, cep, ctx, handles, resp, viaCepData, weatherData,
                 calls, replies>>
  /\ UNCHANGED <<envVars, aVars>>

\* lines 110-115: the child span is started into ctx and the geocode
\* request goes out
CallViaCEP(r) ==
  /\ pc[r] = "call_viacep"
  /\ spans' = [spans EXCEPT ![r] = StartSpan(@, ctx[r], "call-viacep-api")]
  /\ ctx' = [ctx EXCEPT ![r] = Len(spans[r]) + 1]
  /\ handles' = [handles EXCEPT ![r].viaCepSpan = Len(spans[r]) + 1]
  /\ calls' = [calls EXCEPT ![r] = Do(@, [to |-> "viacep", arg |-> cep[r]])]
  /\ pc' = [pc EXCEPT ![r] = "await_viacep"]
  /\ UNCHANGED <<path, cep, resp, viaCepData, weatherData, replies, out, logs>>
  /\ UNCHANGED <<envVars, aVars>>

\* lines 115-123: Do returns, with an error if ctx was cancelled; the child
\* span is ended; a transport error is a 500
ViaCEPReturns(r, res) ==
  /\ pc[r] = "await_viacep"
  /\ ContextAllows(cancelled[r], res)
  /\ replies' = [replies EXCEPT ![r] = Append(@, res)]
  /\ resp' = [resp EXCEPT ![r] = res]
  /\ LET ended == EndSpan(spans[r], handles[r].viaCepSpan)
     IN  IF res.err
         THEN /\ logs' = [logs EXCEPT ![r] = Append(@, "Error fetching from ViaCEP")]
              /\ out' = [out EXCEPT ![r] =
                           HttpError(@, MsgViaCEPFetch, StatusInternalServerError)]
              /\ spans' = [spans EXCEPT ![r] = DeferredEnd(ended, handles[r])]
              /\ pc' = [pc EXCEPT ![r] = "done"]
         ELSE /\ spans' = [spans EXCEPT ![r] = ended]
              /\ pc' = [pc EXCEPT ![r] = "decode_viacep"]
              /\ UNCHANGED <<logs, out>>
  /\ UNCHANGED <<path, cep, ctx, handles, viaCepData, weatherData, calls>>
  /\ UNCHANGED <<envVars, aVars>>

\* lines 125-136: the body is decoded; a body that does not decode is a 500,
\* the error flag or an empty locality a 404
DecodeViaCEP(r) ==
  /\ pc[r] = "decode_viacep"
  /\ LET u == UnmarshalViaCEP(resp[r].body)
     IN  /\ viaCepData' = [viaCepData EXCEPT ![r] = u.data]
         /\ IF u.err
            THEN /\ logs' = [logs EXCEPT ![r] =
                               Append(@, "Error unmarshalling ViaCEP response")]
                 /\ out' = [out EXCEPT ![r] =
                              HttpError(@, MsgViaCEPUnmarshal, StatusInternalServerError)]
                 /\ spans' = [spans EXCEPT ![r] = DeferredEnd(@, handles[r])]
                 /\ pc' = [pc EXCEPT ![r] = "done"]
            ELSE IF ZipcodeNotFound(u.data)
            THEN /\ logs' = [logs EXCEPT ![r] =
                               Append(@, "CEP not found or missing localidade")]
                 /\ out' = [out EXCEPT ![r] =
                              HttpError(@, MsgNotFound, StatusNotFound)]
                 /\ spans' = [spans EXCEPT ![r] = DeferredEnd(@, handles[r])]
                 /\ pc' = [pc EXCEPT ![r] = "done"]
            ELSE /\ pc' = [pc EXCEPT ![r] = "call_weather"]
                 /\ UNCHANGED <<logs, out, spans>>
  /\ UNCHANGED <<path, cep, ctx, handles, resp, weatherData, calls, replies>>
  /\ UNCHANGED <<envVars, aVars>>

\* lines 140-147: the locality is escaped into the weather URL, the second
\* child span is started into ctx and the weather request goes out
CallWeather(r) ==
  /\ pc[r] = "call_weather"
  /\ LET escapedCity == QueryEscape(viaCepData[r].Localidade)
         weatherURL  == WeatherQuery(WeatherAPIKey, escapedCity)
     IN  calls' = [calls EXCEPT ![r] = Do(@, [to |-> "weather", arg |-> weatherURL])]
  /\ spans' = [spans EXCEPT ![r] = StartSpan(@, ctx[r], "call-weather-api")]
  /\ ctx' = [ctx EXCEPT ![r] = Len(spans[r]) + 1]
  /\ handles' = [handles EXCEPT ![r].weatherSpan = Len(spans[r]) + 1]
  /\ pc' = [pc EXCEPT ![r] = "await_weather"]
  /\ UNCHANGED <<path, cep, resp, viaCepData, weatherData, replies, out, logs>>
  /\ UNCHANGED <<envVars, aVars>>

\* lines 147-155: Do returns, with an error if ctx was cancelled; the child
\* span is ended; a transport error is a 500
WeatherReturns(r, res) ==
  /\ pc[r] = "await_weather"
  /\ ContextAllows(cancelled[r], res)
  /\ replies' = [replies EXCEPT ![r] = Append(@, res)]
  /\ resp' = [resp EXCEPT ![r] = res]
  /\ LET ended == EndSpan(spans[r], handles[r].weatherSpan)
     IN  IF res.err
         THEN /\ logs' = [logs EXCEPT ![r] = Append(@, "Error fetching from WeatherAPI")]
              /\ out' = [out EXCEPT ![r] =
                           HttpError(@, MsgWeatherFetch, StatusInternalServerError)]
              /\ spans' = [spans EXCEPT ![r] = DeferredEnd(ended, handles[r])]
              /\ pc' = [pc EXCEPT ![r] = "done"]
         ELSE /\ spans' = [spans EXCEPT ![r] = ended]
              /\ pc' = [pc EXCEPT ![r] = "decode_weather"]
              /\ UNCHANGED <<logs, out>>
  /\ UNCHANGED <<path, cep, ctx, handles, viaCepData, weatherData, calls>>
  /\ UNCHANGED <<envVars, aVars>>

\* lines 157-163: the body is decoded; a body that does not decode is a 500
DecodeWeather(r) ==
  /\ pc[r] = "decode_weather"
  /\ LET u == UnmarshalWeather(resp[r].body)
     IN  /\ weatherData' = [weatherData EXCEPT ![r] = u.data]
         /\ IF u.err
            THEN /\ logs' = [logs EXCEPT ![r] =
                               Append(@, "Error unmarshalling WeatherAPI response")]
                 /\ out' = [out EXCEPT ![r] =
                              HttpError(@, MsgWeatherUnmarshal, StatusInternalServerError)]
                 /\ spans' = [spans EXCEPT ![r] = DeferredEnd(@, handles[r])]
                 /\ pc' = [pc EXCEPT ![r] = "done"]
            ELSE /\ pc' = [pc EXCEPT ![r] = "respond"]
                 /\ UNCHANGED <<logs, out, spans>>
  /\ UNCHANGED <<path, cep, ctx, handles, resp, viaCepData, calls, replies>>
  /\ UNCHANGED <<envVars, aVars>>

\* lines 165-185: the conversions, the success response, the return
Respond(r) ==
  /\ pc[r] = "respond"
  /\ LET response == TempResponse(viaCepData[r].Localidade, weatherData[r].TempC)
     IN  out' = [out EXCEPT ![r] = WriteJSON(@, response)]
  /\ logs' = [logs EXCEPT ![r] = Append(@, "Response for CEP")]
  /\ spans' = [spans EXCEPT ![r] = DeferredEnd(@, handles[r])]
  /\ pc' = [pc EXCEPT ![r] = "done"]
  /\ UNCHANGED <<path, cep, ctx, handles, resp, viaCepData, weatherData,
                 calls, replies>>
  /\ UNCHANGED <<envVars, aVars>>

Next ==
  \/ \E r \in Reqs, p \in Paths : Begin(r, p)
  \/ \E r \in Reqs : Validate(r)
  \/ \E r \in Reqs : CallViaCEP(r)
  \/ \E r \in Reqs, res \in ViaCEPResults : ViaCEPReturns(r, res)
  \/ \E r \in Reqs : DecodeViaCEP(r)
  \/ \E r \in Reqs : CallWeather(r)
  \/ \E r \in Reqs, res \in WeatherResults : WeatherReturns(r, res)
  \/ \E r \in Reqs : DecodeWeather(r)
  \/ \E r \in Reqs : Respond(r)

Spec == Init /\ [][Next]_vars

(***************************************************************************)
(* Type correctness.                                                       *)
(***************************************************************************)
PCs == {"idle", "validate", "call_viacep", "await_viacep", "decode_viacep",
        "call_weather", "await_weather", "decode_weather", "respond", "done"}

TypeOK ==
  /\ pc \in [AllReqs -> PCs]
  /\ \A r \in AllReqs :
       /\ ctx[r] \in 0..Len(spans[r])
       /\ Len(replies[r]) <= Len(calls[r])
       /\ Len(out[r]) <= 1

(***************************************************************************)
(* What the claims speak of, stated apart from the handler's own helpers.  *)
(***************************************************************************)
\* exactly 8 ASCII digits
EightDigits(c) ==
  /\ Len(c) = 8
  /\ \A i \in 1..Len(c) : c[i] \in {"0", "1", "2", "3", "4", "5", "6", "7", "8", "9"}

CallsTo(r, p) == { i \in DOMAIN calls[r] : calls[r][i].to = p }

SpansNamed(r, n) == { i \in DOMAIN spans[r] : spans[r][i].name = n }

Done(r) == pc[r] = "done"

\* the one response of a finished request has this status and this text
Answered(r, status, text) ==
  /\ Len(out[r]) = 1
  /\ out[r][1].status = status
  /\ out[r][1].text = text
  /\ out[r][1].json = <<>>

\* the geocode reply cannot be used: no response, or a body that does not
\* decode into {localidade: string, erro: bool}
GeocodeFailed(g) ==
  \/ g.err
  \/ ~g.body.json
  \/ g.body.localidade.t \notin {"absent", "string"}
  \/ g.body.erro.t \notin {"absent", "bool"}

\* the geocode reply decodes, and says the code is unknown
GeocodeMiss(g) ==
  /\ ~GeocodeFailed(g)
  /\ \/ g.body.erro = JBool(TRUE)
     \/ g.body.localidade.t = "absent"
     \/ g.body.localidade = JString(<<>>)

\* the geocode reply decodes and names a locality, the error flag unset
GeocodeHit(g) ==
  /\ ~GeocodeFailed(g)
  /\ g.body.erro # JBool(TRUE)
  /\ g.body.localidade.t = "string"
  /\ g.body.localidade.s # <<>>

\* the weather reply cannot be used
WeatherFailed(w) ==
  \/ w.err
  \/ ~w.body.json
  \/ (w.body.current /\ w.body.temp_c.t \notin {"absent", "number"})

\* the weather reply carries a Celsius reading
WeatherHasReading(w) ==
  /\ ~w.err
  /\ w.body.json
  /\ w.body.current
  /\ w.body.temp_c.t = "number"

\* the provider's side of the query string: the pairs are split at "&" and
\* at the first "=", "+" is a space and %XX a byte
CharOfHex(h) ==
  CASE h = <<"2", "6">> -> "&"
    [] h = <<"2", "B">> -> "+"
    [] h = <<"2", "5">> -> "%"
    [] h = <<"3", "D">> -> "="
    [] OTHER            -> "?"

RECURSIVE QueryUnescape(_)
QueryUnescape(s) ==
  IF s = <<>> THEN <<>>
  ELSE IF Head(s) = "+" THEN <<" ">> \o QueryUnescape(Tail(s))
  ELSE IF Head(s) = "%" /\ Len(s) >= 3
       THEN <<CharOfHex(SubSeq(s, 2, 3))>> \o QueryUnescape(SubSeq(s, 4, Len(s)))
  ELSE <<Head(s)>> \o QueryUnescape(Tail(s))

FirstIndexOf(s, ch) ==
  IF \E i \in DOMAIN s : s[i] = ch
  THEN CHOOSE i \in DOMAIN s : s[i] = ch /\ \A j \in 1..(i - 1) : s[j] # ch
  ELSE 0

RECURSIVE QueryParam(_, _)
QueryParam(q, name) ==
  LET amp  == FirstIndexOf(q, "&")
      seg  == IF amp = 0 THEN q ELSE SubSeq(q, 1, amp - 1)
      rest == IF amp = 0 THEN <<>> ELSE SubSeq(q, amp + 1, Len(q))
      eq   == FirstIndexOf(seg, "=")
      k    == IF eq = 0 THEN seg ELSE SubSeq(seg, 1, eq - 1)
      v    == IF eq = 0 THEN <<>> ELSE SubSeq(seg, eq + 1, Len(seg))
  IN  IF k = name THEN QueryUnescape(v)
      ELSE IF amp = 0 THEN <<>>
      ELSE QueryParam(rest, name)

(***************************************************************************)
(* The claims.                                                             *)
(***************************************************************************)

\* C1: a request whose extracted postal code is not exactly 8 ASCII digits
\* is answered 422 "invalid zipcode\n" and issues no outbound call at all;
\* every geocode call carries a code of exactly 8 ASCII digits.
C1_InvalidZipcodeRejected ==
  \A r \in Reqs :
    /\ (pc[r] # "idle" /\ ~EightDigits(Tail(path[r]))) =>
         /\ calls[r] = <<>>
         /\ pc[r] \in {"validate", "done"}
         /\ Done(r) => Answered(r, 422, <<"invalid", "zipcode", "\n">>)
    /\ \A i \in CallsTo(r, "viacep") : EightDigits(calls[r][i].arg)

\* a request of nine digits has been rejected
C1_Witness ==
  \E r \in Reqs :
    /\ Done(r)
    /\ Len(cep[r]) = 9
    /\ \A i \in 1..9 : cep[r][i] \in Digits
    /\ Answered(r, 422, <<"invalid", "zipcode", "\n">>)

\* C2: for a valid code, a geocode reply that decodes with the error flag
\* set or with an empty locality is answered 404 "can not find zipcode\n",
\* and the weather provider is never called for that request.
C2_NotFound ==
  \A r \in Reqs :
    (Len(replies[r]) >= 1 /\ EightDigits(cep[r]) /\ GeocodeMiss(replies[r][1])) =>
      /\ CallsTo(r, "weather") = {}
      /\ pc[r] \in {"decode_viacep", "done"}
      /\ Done(r) => Answered(r, 404, <<"can", "not", "find", "zipcode", "\n">>)

\* the error flag came with a locality name, and the answer was 404
C2_Witness ==
  \E r \in Reqs :
    /\ Done(r)
    /\ Len(replies[r]) = 1
    /\ replies[r][1].body.erro = JBool(TRUE)
    /\ replies[r][1].body.localidade.s # <<>>
    /\ Answered(r, 404, <<"can", "not", "find", "zipcode", "\n">>)

\* C3: for a valid code, a geocode reply naming locality L (flag unset) and
\* a weather reply with reading c are answered 200 with a JSON body of the
\* four fields city = L, temp_C = c, temp_F = c * 1.8 + 32 and temp_K.
C3_Success ==
  \A r \in Reqs :
    ( /\ Done(r)
      /\ Len(replies[r]) = 2
      /\ GeocodeHit(replies[r][1])
      /\ WeatherHasReading(replies[r][2]) ) =>
      LET L == replies[r][1].body.localidade.s
          c == replies[r][2].body.temp_c.n
      IN  /\ Len(out[r]) = 1
          /\ out[r][1].status = 200
          /\ out[r][1].text = <<>>
          /\ Len(out[r][1].json) = 1
          /\ LET j == out[r][1].json[1]
             IN  /\ DOMAIN j = {"city", "temp_C", "temp_F", "temp_K"}
                 /\ j.city = L
                 /\ j.temp_C = c
                 /\ 10 * j.temp_F = 18 * c + 32000
                 /\ j.temp_K \in Int

\* 25.00 degrees in a locality whose name needs escaping: 77.00 Fahrenheit
C3_Witness ==
  \E r \in Reqs :
    /\ Done(r)
    /\ Len(out[r]) = 1
    /\ out[r][1].status = 200
    /\ out[r][1].json = <<[city |-> <<"&">>, temp_C |-> 2500,
                           temp_F |-> 7700, temp_K |-> out[r][1].json[1].temp_K]>>

\* a finished request answered 200 with a JSON body
Succeeded(r) ==
  /\ Done(r)
  /\ Len(out[r]) = 1
  /\ out[r][1].status = 200
  /\ Len(out[r][1].json) = 1

C5_UpstreamFailure ==
  \A r \in Reqs :
    /\ (Len(replies[r]) >= 1 /\ GeocodeFailed(replies[r][1])) =>
         /\ CallsTo(r, "weather") = {}
         /\ Len(replies[r]) = 1
         /\ pc[r] \in {"decode_viacep", "done"}
         /\ Done(r) => (Len(out[r]) = 1 /\ out[r][1].status = 500
                                        /\ out[r][1].json = <<>>)
    /\ Len(replies[r]) >= 2 =>
         /\ GeocodeHit(replies[r][1])
         /\ calls[r][1].to = "viacep"
         /\ calls[r][2].to = "weather"
    /\ (Len(replies[r]) >= 2 /\ WeatherFailed(replies[r][2])) =>
         /\ pc[r] \in {"decode_weather", "done"}
         /\ Done(r) => (Len(out[r]) = 1 /\ out[r][1].status = 500
                                        /\ out[r][1].json = <<>>)

\* the weather body was not JSON, and the answer was 500
C5_Witness ==
  \E r \in Reqs :
    /\ Done(r)
    /\ Len(replies[r]) = 2
    /\ ~replies[r][2].err
    /\ ~replies[r][2].body.json
    /\ out[r][1].status = 500

\* C6: when a request has completed, on whichever path, its parent span
\* exists once and was ended once, and each provider has as many child
\* spans as calls made to it, each ended once.
C6_SpansClosedOnce ==
  \A r \in Reqs :
    Done(r) =>
      /\ Cardinality(SpansNamed(r, "orchestration-handler")) = 1
      /\ Cardinality(SpansNamed(r, "call-viacep-api")) = Cardinality(CallsTo(r, "viacep"))
      /\ Cardinality(SpansNamed(r, "call-weather-api")) = Cardinality(CallsTo(r, "weather"))
      /\ Len(spans[r]) = 1 + Len(calls[r])
      /\ \A i \in DOMAIN spans[r] : spans[r][i].ended = 1

\* a not-found exit: the parent and the geocode span, both ended once
C6_Witness ==
  \E r \in Reqs :
    /\ Done(r)
    /\ out[r][1].status = 404
    /\ Len(spans[r]) = 2
    /\ \A i \in DOMAIN spans[r] : spans[r][i].ended = 1

\* the words by which a response text would name a stage
StageWords == {"ViaCEP", "WeatherAPI"}

ServerError(r) == Done(r) /\ Len(out[r]) = 1 /\ out[r][1].status = 500

\* C7 as stated: every 500 response has the same generic text, whichever
\* stage failed and however; the text never names the stage.
C7_GenericServerError ==
  /\ \A r1, r2 \in Reqs :
       (ServerError(r1) /\ ServerError(r2)) => out[r1][1].text = out[r2][1].text
  /\ \A r \in Reqs :
       ServerError(r) =>
         \A i \in DOMAIN out[r][1].text : out[r][1].text[i] \notin StageWords

\* C7 as amended: every 500 response has one of four fixed texts, which
\* names the failing stage and the kind of failure.
C7_ServerErrorNamesStage ==
  \A r \in Reqs :
    ServerError(r) =>
      /\ Len(replies[r]) \in {1, 2}
      /\ out[r][1].text =
           IF Len(replies[r]) = 1
           THEN IF replies[r][1].err
                THEN <<"error", "fetching", "from", "ViaCEP", "\n">>
                ELSE <<"error", "unmarshalling", "ViaCEP", "response", "\n">>
           ELSE IF replies[r][2].err
                THEN <<"error", "fetching", "from", "WeatherAPI", "\n">>
                ELSE <<"error", "unmarshalling", "WeatherAPI", "response", "\n">>

\* the weather call failed in transport
C7_Witness ==
  \E r \in Reqs :
    /\ ServerError(r)
    /\ Len(replies[r]) = 2
    /\ replies[r][2].err
    /\ out[r][1].text = <<"error", "fetching", "from", "WeatherAPI", "\n">>

\* C8 as stated: a 200 response is produced only when the geocode provider
\* supplied a non-empty locality and the weather provider supplied a Celsius
\* reading; no default stands in for a missing one.
C8_NoSubstitutedDefaults ==
  \A r \in Reqs :
    Succeeded(r) =>
      /\ Len(replies[r]) = 2
      /\ GeocodeHit(replies[r][1])
      /\ WeatherHasReading(replies[r][2])

\* C9: whenever the weather call has started, the geocode call of the same
\* request has completed with the flag unset and a non-empty locality, and
\* the weather call carries exactly that locality as its q parameter.
C9_Sequential ==
  \A r \in Reqs :
    CallsTo(r, "weather") # {} =>
      /\ Len(calls[r]) = 2
      /\ calls[r][1].to = "viacep"
      /\ calls[r][2].to = "weather"
      /\ Len(replies[r]) >= 1
      /\ GeocodeHit(replies[r][1])
      /\ QueryParam(calls[r][2].arg, <<"q">>) = replies[r][1].body.localidade.s
      /\ QueryParam(calls[r][2].arg, <<"k", "e", "y">>) = WeatherAPIKey

\* the weather call is in flight for a locality named "&"
C9_Witness ==
  \E r \in Reqs :
    /\ pc[r] = "await_weather"
    /\ replies[r][1].body.localidade.s = <<"&">>
    /\ calls[r][2].arg = <<"k", "e", "y", "=", "k", "&", "q", "=", "%", "2", "6">>

\* C10: over a request's lifetime each provider is called at most once.
C10_NoRetries ==
  \A r \in Reqs :
    /\ Cardinality(CallsTo(r, "viacep")) <= 1
    /\ Cardinality(CallsTo(r, "weather")) <= 1
    /\ Len(calls[r]) <= 2

\* both calls were made and the second one failed: no further call
C10_Witness ==
  \E r \in Reqs :
    /\ ServerError(r)
    /\ Cardinality(CallsTo(r, "viacep")) = 1
    /\ Cardinality(CallsTo(r, "weather")) = 1
    /\ replies[r][2].err

(***************************************************************************)
(* The handler runs on: the goroutine that serves a request is scheduled   *)
(* until it returns, and each provider call returns or fails.  Nothing     *)
(* obliges a request to arrive.                                            *)
(***************************************************************************)
Fairness ==
  \A r \in Reqs :
    /\ WF_vars(Validate(r))
    /\ WF_vars(CallViaCEP(r))
    /\ WF_vars(\E res \in ViaCEPResults : ViaCEPReturns(r, res))
    /\ WF_vars(DecodeViaCEP(r))
    /\ WF_vars(CallWeather(r))
    /\ WF_vars(\E res \in WeatherResults : WeatherReturns(r, res))
    /\ WF_vars(DecodeWeather(r))
    /\ WF_vars(Respond(r))

FairSpec == Spec /\ Fairness

\* the states of the orchestration, as the positions of the handler
Stage(p) ==
  CASE p = "idle" -> "None"
    [] p = "validate" -> "Start"
    [] p \in {"call_viacep", "await_viacep", "decode_viacep"} -> "Validated"
    [] p \in {"call_weather", "await_weather", "decode_weather"} -> "Geocoded"
    [] p = "respond" -> "Weathered"
    [] p = "done" -> "Responded"

\* the successor of each state on the path without errors
Forward ==
  { <<"None", "Start">>, <<"Start", "Validated">>, <<"Validated", "Geocoded">>,
    <<"Geocoded", "Weathered">>, <<"Weathered", "Responded">> }

\* one step of one request along the state machine: it stays in its state,
\* moves to the next one, or leaves Start, Validated or Geocoded for
\* Responded with an error line; only Weathered responds with success
StageStep(r) ==
  LET a == Stage(pc[r])
      b == Stage(pc'[r])
  IN  /\ \/ a = b
         \/ <<a, b>> \in Forward
         \/ a \in {"Start", "Validated", "Geocoded"} /\ b = "Responded"
      /\ (a # "Responded" /\ b = "Responded") =>
           /\ out[r] = <<>>
           /\ Len(out'[r]) = 1
           /\ IF a = "Weathered"
              THEN /\ out'[r][1].status = 200
                   /\ Len(out'[r][1].json) = 1
                   /\ out'[r][1].text = <<>>
              ELSE /\ out'[r][1].status \in {404, 422, 500}
                   /\ out'[r][1].json = <<>>
                   /\ Len(out'[r][1].text) >= 2
                   /\ \A i \in DOMAIN out'[r][1].text :
                        (out'[r][1].text[i] = "\n") <=> (i = Len(out'[r][1].text))
      /\ b # "Responded" => out'[r] = <<>>
      /\ a = "Responded" => out'[r] = out[r]

\* C11: every request moves Start -> Validated -> Geocoded -> Weathered ->
\* Responded without skipping or repeating a state, the only other exit of
\* Start, Validated and Geocoded being an error response; a request that has
\* started eventually reaches Responded; exactly one response is written.
C11_StateMachine ==
  /\ [][\A r \in Reqs : StageStep(r)]_vars
  /\ [](\A r \in Reqs : Len(out[r]) = IF Done(r) THEN 1 ELSE 0)
  /\ \A r \in Reqs : (pc[r] # "idle") ~> Done(r)

\* a request has gone through all five states and answered once
C11_Witness ==
  \E r \in Reqs :
    /\ Done(r)
    /\ Len(replies[r]) = 2
    /\ Len(out[r]) = 1
    /\ out[r][1].status = 200
    /\ logs[r][Len(logs[r])] = "Response for CEP"

(***************************************************************************)
(* A smaller choice of inputs, one for each way through the handler, for   *)
(* the specifications that add the environment or several requests.        *)
(***************************************************************************)
SomePaths ==
  { <<"/", "0", "1", "0", "0", "1", "0", "0", "0">>,
    <<"/", "1", "2", "3", "4", "5">> }

SomeViaCEPResults ==
  { [err |-> TRUE, body |-> NoViaCEPBody],
    [err |-> FALSE, body |-> NoViaCEPBody],
    [err |-> FALSE, body |-> [json |-> TRUE, localidade |-> JString(<<"a">>),
                              erro |-> JBool(TRUE)]],
    [err |-> FALSE, body |-> [json |-> TRUE, localidade |-> JString(<<"a">>),
                              erro |-> JAbsent]],
    [err |-> FALSE, body |-> [json |-> TRUE, localidade |-> JString(<<"&">>),
                              erro |-> JBool(FALSE)]] }

SomeWeatherResults ==
  { [err |-> TRUE, body |-> NoWeatherBody],
    [err |-> FALSE, body |-> NoWeatherBody],
    [err |-> FALSE, body |-> [json |-> TRUE, current |-> FALSE, temp_c |-> JAbsent]],
    [err |-> FALSE, body |-> [json |-> TRUE, current |-> TRUE, temp_c |-> JNumber(0)]],
    [err |-> FALSE, body |-> [json |-> TRUE, current |-> TRUE, temp_c |-> JNumber(2500)]] }

(***************************************************************************)
(* The environment of a request: the client may go away, which cancels     *)
(* r.Context(); the process may be interrupted, upon which main calls      *)
(* srv.Shutdown.  Shutdown closes the listeners and waits for the requests *)
(* being served; it cancels no request context.  (When main returns the    *)
(* process ends and with it every behaviour.)                              *)
(***************************************************************************)
ClientDisconnect(r) ==
  /\ pc[r] \notin {"idle", "done"}
  /\ ~cancelled[r]
  /\ cancelled' = [cancelled EXCEPT ![r] = TRUE]
  /\ UNCHANGED <<pc, path, cep, ctx, handles, resp, viaCepData, weatherData,
                 spans, calls, replies, out, logs, shutdown, aVars>>

\* main.go:238-247: <-ctx.Done(); srv.Shutdown(shutdownCtx)
Shutdown ==
  /\ ~shutdown
  /\ shutdown' = TRUE
  /\ UNCHANGED <<pc, path, cep, ctx, handles, resp, viaCepData, weatherData,
                 spans, calls, replies, out, logs, cancelled, aVars>>

NextCancel ==
  \/ \E r \in Reqs, p \in SomePaths : Begin(r, p)
  \/ \E r \in Reqs : Validate(r)
  \/ \E r \in Reqs : CallViaCEP(r)
  \/ \E r \in Reqs, res \in SomeViaCEPResults : ViaCEPReturns(r, res)
  \/ \E r \in Reqs : DecodeViaCEP(r)
  \/ \E r \in Reqs : CallWeather(r)
  \/ \E r \in Reqs, res \in SomeWeatherResults : WeatherReturns(r, res)
  \/ \E r \in Reqs : DecodeWeather(r)
  \/ \E r \in Reqs : Respond(r)
  \/ \E r \in Reqs : ClientDisconnect(r)
  \/ Shutdown

SpecCancel == Init /\ [][NextCancel]_vars

\* a provider call of request r returns in this step
CallReturns(r) == Len(replies'[r]) = Len(replies[r]) + 1

\* ... with an error, and the request ends with a 500
AbortedWithError(r) ==
  /\ replies'[r][Len(replies'[r])].err
  /\ pc'[r] = "done"
  /\ Len(out'[r]) = 1
  /\ out'[r][1].status = 500

\* C12 as stated: once the inbound request is cancelled, by the client going
\* away or by the process shutting down, a call in flight is aborted, the
\* request takes an error exit and no later call of it completes.
C12_CancelOrShutdownAborts ==
  [][\A r \in Reqs :
       ((cancelled[r] \/ shutdown) /\ CallReturns(r)) => AbortedWithError(r)]_vars

\* C12 as amended: once the context of the inbound request is cancelled (the
\* client went away), a call in flight is aborted, the request takes an
\* error exit and no later call of it completes.
C12_ContextCancelAborts ==
  [][\A r \in Reqs : (cancelled[r] /\ CallReturns(r)) => AbortedWithError(r)]_vars

\* the client went away after the geocode reply: the weather call failed
C12_Witness ==
  \E r \in Reqs :
    /\ cancelled[r]
    /\ Done(r)
    /\ Len(replies[r]) = 2
    /\ ~replies[r][1].err
    /\ replies[r][2].err
    /\ out[r][1].status = 500

(***************************************************************************)
(* Several requests served side by side: net/http runs app.handler in one  *)
(* goroutine per request, and their steps interleave freely.               *)
(***************************************************************************)
NextConc ==
  \/ \E r \in ConcReqs, p \in SomePaths : Begin(r, p)
  \/ \E r \in ConcReqs : Validate(r)
  \/ \E r \in ConcReqs : CallViaCEP(r)
  \/ \E r \in ConcReqs, res \in SomeViaCEPResults : ViaCEPReturns(r, res)
  \/ \E r \in ConcReqs : DecodeViaCEP(r)
  \/ \E r \in ConcReqs : CallWeather(r)
  \/ \E r \in ConcReqs, res \in SomeWeatherResults : WeatherReturns(r, res)
  \/ \E r \in ConcReqs : DecodeWeather(r)
  \/ \E r \in ConcReqs : Respond(r)

SpecConc == Init /\ [][NextConc]_vars

\* what can be observed of a finished request: its response, the providers
\* it called, the spans it opened and whether each was ended once
Outcome(r) ==
  [ status |-> out[r][1].status,
    text   |-> out[r][1].text,
    json   |-> out[r][1].json,
    called |-> [i \in DOMAIN calls[r] |-> calls[r][i].to],
    opened |-> [i \in DOMAIN spans[r] |-> spans[r][i].name],
    closed |-> \A i \in DOMAIN spans[r] : spans[r][i].ended = 1 ]

Result(status, text, json, called, opened) ==
  [ status |-> status, text |-> text, json |-> json,
    called |-> called, opened |-> opened, closed |-> TRUE ]

\* the outcome of the handler serving path p on its own, the providers
\* answering reps
SoloOutcome(p, reps) ==
  LET h  == "orchestration-handler"
      v  == "call-viacep-api"
      w  == "call-weather-api"
      g1 == <<"viacep">>
      g2 == <<"viacep", "weather">>
  IN  IF ~EightDigits(Tail(p))
      THEN Result(422, <<"invalid", "zipcode", "\n">>, <<>>, <<>>, <<h>>)
      ELSE IF reps[1].err
      THEN Result(500, <<"error", "fetching", "from", "ViaCEP", "\n">>, <<>>, g1, <<h, v>>)
      ELSE IF GeocodeFailed(reps[1])
      THEN Result(500, <<"error", "unmarshalling", "ViaCEP", "response", "\n">>,
                  <<>>, g1, <<h, v>>)
      ELSE IF GeocodeMiss(reps[1])
      THEN Result(404, <<"can", "not", "find", "zipcode", "\n">>, <<>>, g1, <<h, v>>)
      ELSE IF reps[2].err
      THEN Result(500, <<"error", "fetching", "from", "WeatherAPI", "\n">>,
                  <<>>, g2, <<h, v, w>>)
      ELSE IF WeatherFailed(reps[2])
      THEN Result(500, <<"error", "unmarshalling", "WeatherAPI", "response", "\n">>,
                  <<>>, g2, <<h, v, w>>)
      ELSE LET c == IF WeatherHasReading(reps[2]) THEN reps[2].body.temp_c.n ELSE 0
           IN  Result(200, <<>>,
                      << [city   |-> reps[1].body.localidade.s,
                          temp_C |-> c,
                          temp_F |-> (18 * c + 32000) \div 10,
                          temp_K |-> c + 27300] >>,
                      g2, <<h, v, w>>)

\* everything the handler keeps for request r
StateOf(r) ==
  <<pc[r], path[r], cep[r], ctx[r], handles[r], resp[r], viaCepData[r],
    weatherData[r], spans[r], calls[r], replies[r], out[r], logs[r]>>

\* a step changes the state of one request at most
OneRequestPerStep ==
  \A r1, r2 \in ConcReqs :
    (r1 # r2 /\ StateOf(r1)' # StateOf(r1)) => StateOf(r2)' = StateOf(r2)

\* C13: requests share no state: however the steps of concurrent requests
\* interleave, a step touches one request only, and the outcome of each
\* request (status, body, calls made, spans opened and closed) is the one it
\* has when it runs alone on the same input and provider responses.
C13_Independent ==
  /\ [][OneRequestPerStep]_vars
  /\ [](\A r \in ConcReqs :
          Done(r) => (Len(out[r]) = 1 /\ Outcome(r) = SoloOutcome(path[r], replies[r])))

\* one request has been answered for "a" while another one, for "&", still
\* waits for the weather provider
C13_Witness ==
  \E r1, r2 \in ConcReqs :
    /\ r1 # r2
    /\ Succeeded(r1)
    /\ out[r1][1].json[1].city = <<"a">>
    /\ pc[r2] = "await_weather"
    /\ viaCepData[r2].Localidade = <<"&">>

InFlight(r, name) ==
  \/ name = "call-viacep-api" /\ pc[r] = "await_viacep"
  \/ name = "call-weather-api" /\ pc[r] = "await_weather"

\* C15: the geocode span and the weather span each have the request's
\* orchestration span as their parent; a child span is open exactly while
\* its call is in flight, and then the parent span is open too.
C15_ChildSpansUnderParent ==
  \A r \in Reqs :
    \A i \in DOMAIN spans[r] :
      spans[r][i].name \in {"call-viacep-api", "call-weather-api"} =>
        /\ spans[r][i].parent \in DOMAIN spans[r]
        /\ spans[r][spans[r][i].parent].name = "orchestration-handler"
        /\ (spans[r][i].ended = 0) <=> InFlight(r, spans[r][i].name)
        /\ spans[r][i].ended = 0 => spans[r][spans[r][i].parent].ended = 0

(***************************************************************************)
(* Service A (service-a, part_002:385-462): the public entry point, which  *)
(* checks the request and asks Service B for /<cep>.                       *)
(***************************************************************************)
\* what arrives at Service A: a method and a body that is not JSON, or an
\* object whose "cep" is absent, a number or a string
AInputs ==
  { [method |-> m, json |-> FALSE, cep |-> JAbsent] : m \in {"POST", "GET"} }
  \cup
  { [method |-> m, json |-> TRUE, cep |-> v] :
      m \in {"POST", "GET"},
      v \in {JAbsent, JNumber(1001000)} \cup { JString(c) : c \in Ceps } }

AMsgOnlyPost == <<"apenas", "POST", "é", "permitido">>
AMsgDecode == <<"falha", "ao", "decodificar", "o", "body", "da", "requisição">>
AMsgCallB == <<"falha", "ao", "chamar", "o", "Serviço", "B">>

\* json.NewDecoder(r.Body).Decode(&zipCode)
DecodeZipCode(in) ==
  [ err |-> ~in.json \/ in.cep.t \notin {"absent", "string"},
    CEP |-> IF in.json /\ in.cep.t = "string" THEN in.cep.s ELSE <<>> ]

AIsValidZipCodeUnanchored(c) == MatchDigitsPrefix(c, ZipLen)

\* isValidZipCode: regexp.MustCompile(`^[0-9]{8}$`).MatchString(cep)
AIsValidZipCode(c) == MatchDigitsThenEnd(c, ZipLen)

\* fmt.Sprintf("%s/%s", serviceBURL, zipCode.CEP): the path asked of B
ServiceBPath(c) == <<"/">> \o c

\* part_002:392-438: the handler of Service A up to client.Do
AHandle(r, in) ==
  /\ aPc[r] = "idle"
  /\ pc[r] = "idle"
  /\ aIn' = [aIn EXCEPT ![r] = in]
  /\ LET started == StartSpan(aSpans[r], 0, "service-a-handler")
         z       == DecodeZipCode(in)
     IN  IF in.method # "POST"
         THEN /\ aOut' = [aOut EXCEPT ![r] = HttpError(@, AMsgOnlyPost, 405)]
              /\ aSpans' = [aSpans EXCEPT ![r] = EndSpan(started, 1)]
              /\ aPc' = [aPc EXCEPT ![r] = "done"]
              /\ UNCHANGED aCalls
         ELSE IF z.err
         THEN /\ aOut' = [aOut EXCEPT ![r] = HttpError(@, AMsgDecode, 400)]
              /\ aSpans' = [aSpans EXCEPT ![r] = EndSpan(started, 1)]
              /\ aPc' = [aPc EXCEPT ![r] = "done"]
              /\ UNCHANGED aCalls
         ELSE IF ~AIsValidZipCode(z.CEP)
         THEN /\ aOut' = [aOut EXCEPT ![r] =
                            HttpError(@, MsgInvalidZipcode, StatusUnprocessableEntity)]
              /\ aSpans' = [aSpans EXCEPT ![r] = EndSpan(started, 1)]
              /\ aPc' = [aPc EXCEPT ![r] = "done"]
              /\ UNCHANGED aCalls
         ELSE /\ aSpans' = [aSpans EXCEPT ![r] = StartSpan(started, 1, "call-service-b")]
              /\ aCalls' = [aCalls EXCEPT ![r] = Do(@, ServiceBPath(z.CEP))]
              /\ aPc' = [aPc EXCEPT ![r] = "await_b"]
              /\ UNCHANGED aOut
  /\ UNCHANGED <<pc, path, cep, ctx, handles, resp, viaCepData, weatherData,
                 spans, calls, replies, out, logs, envVars>>

\* the request of Service A reaches Service B, whose handler starts
BeginForwarded(r) ==
  /\ aPc[r] = "await_b"
  /\ Begin(r, aCalls[r][1])

\* part_002:438-444: client.Do fails before an answer of Service B arrives
AFails(r) ==
  /\ aPc[r] = "await_b"
  /\ pc[r] # "done"
  /\ aOut' = [aOut EXCEPT ![r] = HttpError(@, AMsgCallB, StatusInternalServerError)]
  /\ aSpans' = [aSpans EXCEPT ![r] = EndSpan(EndSpan(@, 2), 1)]
  /\ aPc' = [aPc EXCEPT ![r] = "done"]
  /\ UNCHANGED <<pc, path, cep, ctx, handles, resp, viaCepData, weatherData,
                 spans, calls, replies, out, logs, envVars, aIn, aCalls>>

\* part_002:445-462: Service B has answered; its status and body are copied
AReturns(r) ==
  /\ aPc[r] = "await_b"
  /\ pc[r] = "done"
  /\ aOut' = [aOut EXCEPT ![r] = Append(@, out[r][1])]
  /\ aSpans' = [aSpans EXCEPT ![r] = EndSpan(EndSpan(@, 2), 1)]
  /\ aPc' = [aPc EXCEPT ![r] = "done"]
  /\ UNCHANGED <<pc, path, cep, ctx, handles, resp, viaCepData, weatherData,
                 spans, calls, replies, out, logs, envVars, aIn, aCalls>>

NextPipeline ==
  \/ \E r \in Reqs, in \in AInputs : AHandle(r, in)
  \/ \E r \in Reqs : BeginForwarded(r)
  \/ \E r \in Reqs : AFails(r)
  \/ \E r \in Reqs : AReturns(r)
  \/ \E r \in Reqs : Validate(r)
  \/ \E r \in Reqs : CallViaCEP(r)
  \/ \E r \in Reqs, res \in ViaCEPResults : ViaCEPReturns(r, res)
  \/ \E r \in Reqs : DecodeViaCEP(r)
  \/ \E r \in Reqs : CallWeather(r)
  \/ \E r \in Reqs, res \in WeatherResults : WeatherReturns(r, res)
  \/ \E r \in Reqs : DecodeWeather(r)
  \/ \E r \in Reqs : Respond(r)

SpecPipeline == Init /\ [][NextPipeline]_vars

\* the request Service A received is a POST whose body decodes to a cep of
\* exactly 8 ASCII digits
Forwardable(in) ==
  /\ in.method = "POST"
  /\ in.json
  /\ in.cep.t = "string"
  /\ EightDigits(in.cep.s)

\* C16: Service A calls Service B only for a POST whose body decodes and
\* whose cep is exactly 8 ASCII digits, with that cep as the path; Service B
\* never answers a forwarded request 422; any other request to Service A
\* causes no call to Service B.
C16_ForwardedIsValid ==
  \A r \in Reqs :
    /\ aCalls[r] # <<>> =>
         /\ Forwardable(aIn[r])
         /\ aCalls[r] = << <<"/">> \o aIn[r].cep.s >>
    /\ pc[r] # "idle" =>
         /\ aCalls[r] # <<>>
         /\ path[r] = aCalls[r][1]
         /\ cep[r] = aIn[r].cep.s
    /\ Done(r) => out[r][1].status # 422
    /\ (aPc[r] # "idle" /\ ~Forwardable(aIn[r])) =>
         /\ aCalls[r] = <<>>
         /\ pc[r] = "idle"
         /\ aPc[r] = "done"
         /\ aOut[r][1].status \in {400, 405, 422}

\* Service A has passed on the answer Service B gave to a forwarded request
C16_Witness ==
  \E r \in Reqs :
    /\ aPc[r] = "done"
    /\ Done(r)
    /\ Len(aCalls[r]) = 1
    /\ aOut[r] = out[r]
    /\ out[r][1].status = 200

=============================================================================
